---- MODULE Spec2Model ----
(***************************************************************************)
(* Charisma (src/src/charisma.js): an interactive menu loop that asks a    *)
(* remote model for code, writes it under ./generated, optionally formats  *)
(* it and copies it to the clipboard, and keeps a JSON history file.       *)
(*                                                                         *)
(* A string is a sequence of UTF-16 code units, each unit written as a     *)
(* TLA+ string.  Fixed words that the program never takes apart (JSON key  *)
(* names, language names, messages) are written as one unit.               *)
(***************************************************************************)
EXTENDS Integers, Sequences, FiniteSets, TLC

VARIABLES
    fs,            \* the file system: path -> content (a string)
    now,           \* the system clock read by new Date()
    clipboard,     \* the system clipboard
    pc,            \* per process: where main() is blocked
    exitCode,      \* per process: exit status once terminated
    prompt,        \* per process: const prompt   (line 155)
    lang,          \* per process: const lang     (line 156)
    filename,      \* per process: const filename (line 158)
    code,          \* per process: const code     (line 162 / line 150)
    formatterCmd,  \* per process: const formatterCmd (line 168)
    history,       \* per process: let history in saveHistory / viewHistory
    gistData,      \* per process: the payload of the gist request in flight
    stdout         \* per process: the lines printed by its latest step

vars == <<fs, now, clipboard, pc, exitCode, prompt, lang, filename, code,
          formatterCmd, history, gistData, stdout>>

Procs == {1, 2}

----------------------------------------------------------------------------
(* Characters and strings *)

LowerCase == <<"a","b","c","d","e","f","g","h","i","j","k","l","m",
               "n","o","p","q","r","s","t","u","v","w","x","y","z">>
UpperCase == <<"A","B","C","D","E","F","G","H","I","J","K","L","M",
               "N","O","P","Q","R","S","T","U","V","W","X","Y","Z">>
Digit     == <<"0","1","2","3","4","5","6","7","8","9">>

KelvinSign   == "U+212A"   \* its lower case is the ASCII letter k
CapitalIDot  == "U+0130"   \* its lower case is i followed by U+0307
CombiningDot == "U+0307"

Range(s) == {s[i] : i \in 1..Len(s)}

IndexOf(s, c) == CHOOSE i \in 1..Len(s) : s[i] = c

RECURSIVE Concat(_)
Concat(ss) == IF ss = <<>> THEN <<>> ELSE Head(ss) \o Concat(Tail(ss))

\* String.prototype.toLowerCase on one code unit (the result may be longer).
LowerUnit(c) ==
    IF c \in Range(UpperCase) THEN <<LowerCase[IndexOf(UpperCase, c)]>>
    ELSE IF c = KelvinSign THEN <<"k">>
    ELSE IF c = CapitalIDot THEN <<"i", CombiningDot>>
    ELSE <<c>>

toLowerCase(s) == Concat([i \in 1..Len(s) |-> LowerUnit(s[i])])

\* A code unit the class [a-z0-9] matches under the flags gi (no u flag):
\* case-insensitive matching never maps a non-ASCII unit onto an ASCII one.
MatchesAlnum(c) == c \in Range(LowerCase) \cup Range(UpperCase) \cup Range(Digit)

\* base.replace(/[^a-z0-9]/gi, '_')
replaceUnsafe(s) == [i \in 1..Len(s) |-> IF MatchesAlnum(s[i]) THEN s[i] ELSE "_"]

IsSpace(c) == c = " "

\* String.prototype.trim
RECURSIVE trimStart(_)
trimStart(s) == IF s # <<>> /\ IsSpace(Head(s)) THEN trimStart(Tail(s)) ELSE s
RECURSIVE trimEnd(_)
trimEnd(s) ==
    IF s # <<>> /\ IsSpace(s[Len(s)]) THEN trimEnd(SubSeq(s, 1, Len(s) - 1)) ELSE s
trim(s) == trimEnd(trimStart(s))

\* Number.prototype.toString for a natural number.
RECURSIVE numberToString(_)
numberToString(n) ==
    IF n < 10 THEN <<Digit[n + 1]>>
    ELSE numberToString(n \div 10) \o <<Digit[(n % 10) + 1]>>

\* Date.prototype.toISOString of the clock value n.
toISOString(n) == <<"T">> \o numberToString(n) \o <<"Z">>

----------------------------------------------------------------------------
(* Paths *)

Sep == "/"

\* The segments of a path: the runs of units between separators.
RECURSIVE Segments(_, _)
Segments(s, cur) ==
    IF s = <<>> THEN <<cur>>
    ELSE IF Head(s) = Sep THEN <<cur>> \o Segments(Tail(s), <<>>)
    ELSE Segments(Tail(s), Append(cur, Head(s)))

\* path.normalize on the segments of an absolute path: "" and "." vanish,
\* ".." removes the segment before it.
RECURSIVE Resolve(_, _)
Resolve(segs, acc) ==
    IF segs = <<>> THEN acc
    ELSE LET h == Head(segs) IN
         IF h = <<>> \/ h = <<".">> THEN Resolve(Tail(segs), acc)
         ELSE IF h = <<".", ".">>
              THEN Resolve(Tail(segs),
                           IF acc = <<>> THEN acc ELSE SubSeq(acc, 1, Len(acc) - 1))
         ELSE Resolve(Tail(segs), Append(acc, h))

RECURSIVE JoinSegments(_)
JoinSegments(segs) ==
    IF segs = <<>> THEN <<>> ELSE <<Sep>> \o Head(segs) \o JoinSegments(Tail(segs))

\* path.join(dir, name) for an absolute dir.
pathJoin(dir, name) ==
    LET r == Resolve(Segments(dir \o <<Sep>> \o name, <<>>), <<>>)
    IN  IF r = <<>> THEN <<Sep>> ELSE JoinSegments(r)

cwd == <<Sep, "w">>

historyPath == pathJoin(cwd, <<".", Sep>> \o <<"charisma_history.json">>)
outputDir   == pathJoin(cwd, <<".", Sep>> \o <<"g","e","n","e","r","a","t","e","d">>)

----------------------------------------------------------------------------
(* The formatter registry *)

options == <<"C", "C++", "Python", "JavaScript", "Java", "Go", "Ruby">>

formatters ==
    [l \in Range(options) |->
        CASE l = "C"          -> [cmd |-> <<"clang-format", "-i">>, ext |-> <<".","c">>]
          [] l = "C++"        -> [cmd |-> <<"clang-format", "-i">>, ext |-> <<".","c","p","p">>]
          [] l = "Python"     -> [cmd |-> <<"black">>,              ext |-> <<".","p","y">>]
          [] l = "JavaScript" -> [cmd |-> <<"prettier", "--write">>, ext |-> <<".","j","s">>]
          [] l = "Java"       -> [cmd |-> <<"clang-format", "-i">>, ext |-> <<".","j","a","v","a">>]
          [] l = "Go"         -> [cmd |-> <<"gofmt", "-w">>,        ext |-> <<".","g","o">>]
          [] l = "Ruby"       -> [cmd |-> <<"rufo">>,               ext |-> <<".","r","b">>]]

\* Mutant: without the test for -1 a cancel selects like the first option.
languageSelector_NoFallback(index) == options[IF index = -1 THEN 1 ELSE index + 1]

\* keyInSelect returns -1 on cancel, else the 0-based index of the option.
languageSelector(index) == IF index = -1 THEN "JavaScript" ELSE options[index + 1]

\* Mutant: the prompt is lowercased but no character is replaced.
getFilename_NothingReplaced(base, ext) == pathJoin(outputDir, toLowerCase(base) \o ext)

\* Mutant: the name keeps the case of the prompt.
getFilename_CaseKept(base, ext) == pathJoin(outputDir, replaceUnsafe(base) \o ext)

getFilename(base, ext) ==
    LET safe == toLowerCase(replaceUnsafe(base))
    IN  pathJoin(outputDir, safe \o ext)

----------------------------------------------------------------------------
(* JSON: values, JSON.stringify and JSON.parse *)

JStr(s)  == [t |-> "string", v |-> s]
JNum(n)  == [t |-> "number", v |-> numberToString(n)]
JNull    == [t |-> "null", v |-> <<>>]
JArr(xs) == [t |-> "array", v |-> xs]
JObj(ms) == [t |-> "object", v |-> ms]      \* ms: sequence of [k, val], in key order
undefined == [t |-> "undefined", v |-> <<>>]

Quote     == "\""
Backslash == "\\"

\* A string literal: quotes around the units, with " and \ escaped.
escape(s) ==
    Concat([i \in 1..Len(s) |->
              IF s[i] = Quote \/ s[i] = Backslash THEN <<Backslash, s[i]>> ELSE <<s[i]>>])
quote(s) == <<Quote>> \o escape(s) \o <<Quote>>

RECURSIVE JoinComma(_)
JoinComma(ss) ==
    IF ss = <<>> THEN <<>>
    ELSE IF Len(ss) = 1 THEN Head(ss)
    ELSE Head(ss) \o <<",">> \o JoinComma(Tail(ss))

\* JSON.stringify(x, null, 2) without the indentation it puts between tokens,
\* which JSON.parse skips.
RECURSIVE stringify(_)
stringify(x) ==
    CASE x.t = "string" -> quote(x.v)
      [] x.t = "number" -> x.v
      [] x.t = "null"   -> <<"null">>
      [] x.t = "array"  ->
            <<"[">> \o JoinComma([i \in 1..Len(x.v) |-> stringify(x.v[i])]) \o <<"]">>
      [] x.t = "object" ->
            <<"{">> \o JoinComma([i \in 1..Len(x.v) |->
                          quote(x.v[i].k) \o <<":">> \o stringify(x.v[i].val)]) \o <<"}">>

\* The parser returns [ok, v, rest]: the value read and the text after it.
ParseFail == [ok |-> FALSE, v |-> JNull, rest |-> <<>>]
ParseOk(x, rest) == [ok |-> TRUE, v |-> x, rest |-> rest]

RECURSIVE parseUnits(_, _)
parseUnits(s, acc) ==
    IF s = <<>> THEN ParseFail
    ELSE IF Head(s) = Quote THEN ParseOk(JStr(acc), Tail(s))
    ELSE IF Head(s) = Backslash
         THEN IF Len(s) >= 2 /\ s[2] \in {Quote, Backslash, Sep}
              THEN parseUnits(Tail(Tail(s)), Append(acc, s[2]))
              ELSE ParseFail
    ELSE parseUnits(Tail(s), Append(acc, Head(s)))

parseString(s) ==
    IF s # <<>> /\ Head(s) = Quote THEN parseUnits(Tail(s), <<>>) ELSE ParseFail

RECURSIVE parseDigits(_, _)
parseDigits(s, acc) ==
    IF s # <<>> /\ Head(s) \in Range(Digit)
    THEN parseDigits(Tail(s), Append(acc, Head(s)))
    ELSE ParseOk([t |-> "number", v |-> acc], s)

RECURSIVE parseValue(_), parseElements(_, _), parseMembers(_, _)
parseValue(s) ==
    IF s = <<>> THEN ParseFail
    ELSE CASE Head(s) = Quote -> parseString(s)
           [] Head(s) \in Range(Digit) -> parseDigits(s, <<>>)
           [] Head(s) = "null" -> ParseOk(JNull, Tail(s))
           [] Head(s) = "[" ->
                IF Len(s) >= 2 /\ s[2] = "]" THEN ParseOk(JArr(<<>>), Tail(Tail(s)))
                ELSE parseElements(Tail(s), <<>>)
           [] Head(s) = "{" ->
                IF Len(s) >= 2 /\ s[2] = "}" THEN ParseOk(JObj(<<>>), Tail(Tail(s)))
                ELSE parseMembers(Tail(s), <<>>)
           [] OTHER -> ParseFail

parseElements(s, acc) ==
    LET e == parseValue(s) IN
    IF ~e.ok \/ e.rest = <<>> THEN ParseFail
    ELSE IF Head(e.rest) = "," THEN parseElements(Tail(e.rest), Append(acc, e.v))
    ELSE IF Head(e.rest) = "]" THEN ParseOk(JArr(Append(acc, e.v)), Tail(e.rest))
    ELSE ParseFail

parseMembers(s, acc) ==
    LET key == parseString(s) IN
    IF ~key.ok \/ key.rest = <<>> \/ Head(key.rest) # ":" THEN ParseFail
    ELSE LET e == parseValue(Tail(key.rest))
             m == [k |-> key.v.v, val |-> e.v]
         IN  IF ~e.ok \/ e.rest = <<>> THEN ParseFail
             ELSE IF Head(e.rest) = "," THEN parseMembers(Tail(e.rest), Append(acc, m))
             ELSE IF Head(e.rest) = "}" THEN ParseOk(JObj(Append(acc, m)), Tail(e.rest))
             ELSE ParseFail

\* JSON.parse(text): [ok, v]; ok = FALSE stands for the SyntaxError it throws.
parse(text) ==
    LET r == parseValue(text) IN
    IF r.ok /\ r.rest = <<>> THEN r ELSE ParseFail

\* item.key of a JavaScript value: undefined unless an object holds the key.
Member(item, key) ==
    IF item.t = "object" /\ \E i \in 1..Len(item.v) : item.v[i].k = key
    THEN item.v[CHOOSE i \in 1..Len(item.v) :
                  /\ item.v[i].k = key
                  /\ \A j \in (i + 1)..Len(item.v) : item.v[j].k # key].val
    ELSE undefined

\* `${x}` in a template literal.
RECURSIVE toString(_)
toString(x) ==
    CASE x.t = "string"    -> x.v
      [] x.t = "number"    -> x.v
      [] x.t = "null"      -> <<"null">>
      [] x.t = "undefined" -> <<"undefined">>
      [] x.t = "object"    -> <<"[object Object]">>
      [] x.t = "array"     -> JoinComma([i \in 1..Len(x.v) |-> toString(x.v[i])])

\* Mutant: slice(0, n), the first n entries.
sliceLast_FromStart(xs, n) == SubSeq(xs, 1, IF n < Len(xs) THEN n ELSE Len(xs))

\* Array.prototype.slice(-n)
sliceLast(xs, n) ==
    LET start == IF Len(xs) - n < 0 THEN 0 ELSE Len(xs) - n
    IN  SubSeq(xs, start + 1, Len(xs))

----------------------------------------------------------------------------
(* Values of the session *)

NotSet == <<"<not set>">>        \* a local that is not in scope
null   == <<>>                   \* checkFormatter's null
NoRequest == [description |-> <<>>, public |-> FALSE, file |-> <<>>, content |-> <<>>]

Banner == << <<"Charisma">>, <<"Coding Agent">> >>

HistoryEntry(timestamp, p, l, file) ==
    JObj(<< [k |-> <<"timestamp">>, val |-> JStr(timestamp)],
            [k |-> <<"prompt">>,    val |-> JStr(p)],
            [k |-> <<"lang">>,      val |-> JStr(<<l>>)],
            [k |-> <<"file">>,      val |-> JStr(file)] >>)

\* What an external formatter leaves in the file it rewrites in place.
FormattedMark == "/*formatted*/"
formatted(text) ==
    IF text # <<>> /\ Head(text) = FormattedMark THEN text ELSE <<FormattedMark>> \o text

\* cliHighlight.highlight: the text with colour codes around it.
highlight(text) == <<"\\x1B[">> \o text

existsSync(path) == path \in DOMAIN fs

\* fs.writeFileSync opens the file with flag 'w' (create or truncate), then
\* writes the data: two system calls.
openTruncate(path) == (path :> <<>>) @@ fs
writeData(path, data) == (path :> data) @@ fs

ErrorLine(msg) == <<"Something went wrong:", " ">> \o msg

GenerationErrors == {<<"fetch failed">>}
SyntaxError == <<"Unexpected token in JSON">>
PushTypeError == <<"history.push is not a function">>
SliceTypeError == <<"history.slice(...).forEach is not a function">>
ItemTypeError == <<"Cannot read properties of null">>
ENOENT == <<"ENOENT: no such file or directory">>

----------------------------------------------------------------------------
(* Initial states *)

OldPrompt == <<"o", "l", "d">>
OldEntry ==
    HistoryEntry(toISOString(0), OldPrompt, "Go", getFilename(OldPrompt, formatters["Go"].ext))

WellFormedHistory == stringify(JArr(<<OldEntry>>))
TruncatedHistory  == <<"[", "{">>                    \* not JSON
ObjectHistory     == stringify(JObj(<<>>))           \* JSON, not an array
NumbersHistory    == stringify(JArr(<<JNum(1)>>))    \* an array, not of entries

HistoryContents == {WellFormedHistory, TruncatedHistory, ObjectHistory, NumbersHistory}

InitWith(started, contents) ==
    /\ fs \in {<<>>} \cup {(historyPath :> c) : c \in contents}
    /\ now = 1
    /\ clipboard = <<>>
    /\ pc = [p \in Procs |-> IF p \in started THEN "MainMenu" ELSE "NotStarted"]
    /\ exitCode = [p \in Procs |-> 0]
    /\ prompt = [p \in Procs |-> NotSet]
    /\ lang = [p \in Procs |-> ""]
    /\ filename = [p \in Procs |-> NotSet]
    /\ code = [p \in Procs |-> NotSet]
    /\ formatterCmd = [p \in Procs |-> NotSet]
    /\ history = [p \in Procs |-> undefined]
    /\ gistData = [p \in Procs |-> NoRequest]
    /\ stdout = [p \in Procs |-> Banner]

locals == <<prompt, lang, filename, code, formatterCmd, history, gistData>>
world  == <<fs, now, clipboard>>

\* The next iteration of while (true): the locals of the last one are gone,
\* clearScreen() and the banner run before the menu blocks.
nextIteration(p, printed) ==
    /\ pc' = [pc EXCEPT ![p] = "MainMenu"]
    /\ prompt' = [prompt EXCEPT ![p] = NotSet]
    /\ lang' = [lang EXCEPT ![p] = ""]
    /\ filename' = [filename EXCEPT ![p] = NotSet]
    /\ code' = [code EXCEPT ![p] = NotSet]
    /\ formatterCmd' = [formatterCmd EXCEPT ![p] = NotSet]
    /\ history' = [history EXCEPT ![p] = undefined]
    /\ gistData' = [gistData EXCEPT ![p] = NoRequest]
    /\ stdout' = [stdout EXCEPT ![p] = printed \o Banner]

\* An exception that leaves main(): the promise rejects and node exits with 1.
uncaught(p, msg) ==
    /\ pc' = [pc EXCEPT ![p] = "Terminated"]
    /\ exitCode' = [exitCode EXCEPT ![p] = 1]
    /\ stdout' = [stdout EXCEPT ![p] = <<msg>>]

\* The catch block of main (lines 180-183).
caught(p, msg) ==
    /\ pc' = [pc EXCEPT ![p] = "ErrReturn"]
    /\ stdout' = [stdout EXCEPT ![p] = <<ErrorLine(msg)>>]

goto(p, label, printed) ==
    /\ pc' = [pc EXCEPT ![p] = label]
    /\ stdout' = [stdout EXCEPT ![p] = printed]

----------------------------------------------------------------------------
(* The main menu (lines 131-153) *)

\* choice -1 (cancel) or 'Exit'
exit(p) ==
    /\ pc[p] = "MainMenu"
    /\ \E choice \in {-1, 3} :
          /\ pc' = [pc EXCEPT ![p] = "Terminated"]
          /\ exitCode' = [exitCode EXCEPT ![p] = 0]
    /\ UNCHANGED <<world, locals, stdout>>

select(p, label, maxClock) ==
    /\ pc[p] = "MainMenu"
    /\ now < maxClock
    /\ now' = now + 1
    /\ goto(p, label, <<>>)
    /\ UNCHANGED <<fs, clipboard, exitCode, locals>>

selectNewCode(p, maxClock)     == select(p, "NewCodeFlow", maxClock)
selectViewHistory(p, maxClock) == select(p, "ViewHistory", maxClock)
selectCreateGist(p, maxClock)  == select(p, "CreateGist", maxClock)

RecentCount == 5

HistoryLine(item, i) ==
    numberToString(i) \o <<". [">> \o toString(Member(item, <<"lang">>)) \o <<"] -> ">>
        \o toString(Member(item, <<"prompt">>)) \o <<" (">>
        \o toString(Member(item, <<"file">>)) \o <<")">>

\* viewHistory from line 98 on: the file exists.
showHistory(p) ==
    LET r == parse(fs[historyPath]) IN
    IF ~r.ok
    THEN uncaught(p, SyntaxError) /\ UNCHANGED history
    ELSE IF r.v.t # "array"
    THEN uncaught(p, SliceTypeError) /\ history' = [history EXCEPT ![p] = r.v]
    ELSE LET recent == sliceLast(r.v.v, RecentCount) IN
         IF \E i \in 1..Len(recent) : recent[i].t \in {"null", "undefined"}
         THEN uncaught(p, ItemTypeError) /\ history' = [history EXCEPT ![p] = r.v]
         ELSE /\ goto(p, "ViewReturn",
                      << <<"History:">> >> \o
                      [i \in 1..Len(recent) |-> HistoryLine(recent[i], i)])
              /\ history' = [history EXCEPT ![p] = r.v]
              /\ UNCHANGED exitCode

\* Mutant: no existsSync test, readFileSync throws on the missing file.
viewHistory_NoExistsTest(p) ==
    /\ pc[p] = "ViewHistory"
    /\ IF ~existsSync(historyPath)
       THEN uncaught(p, ENOENT) /\ UNCHANGED history
       ELSE showHistory(p)
    /\ UNCHANGED <<world, prompt, lang, filename, code, formatterCmd, gistData>>

\* Mutant: a missing history file is created empty.
viewHistory_CreatesFile(p) ==
    /\ pc[p] = "ViewHistory"
    /\ IF ~existsSync(historyPath)
       THEN /\ fs' = writeData(historyPath, stringify(JArr(<<>>)))
            /\ goto(p, "ViewReturn", << <<"No history yet.">> >>)
            /\ UNCHANGED <<exitCode, history>>
       ELSE showHistory(p) /\ fs' = fs
    /\ UNCHANGED <<now, clipboard, prompt, lang, filename, code, formatterCmd, gistData>>

viewHistory(p) ==
    /\ pc[p] = "ViewHistory"
    /\ IF ~existsSync(historyPath)
       THEN /\ goto(p, "ViewReturn", << <<"No history yet.">> >>)
            /\ UNCHANGED <<exitCode, history>>
       ELSE showHistory(p)
    /\ UNCHANGED <<world, prompt, lang, filename, code, formatterCmd, gistData>>

viewReturn(p) ==
    /\ pc[p] = "ViewReturn"
    /\ nextIteration(p, <<>>)
    /\ UNCHANGED <<world, exitCode>>

MissingFile == pathJoin(cwd, <<"m","i","s","s","i","n","g">>)
Descriptions == {<<>>, <<"d">>}

\* Lines 146-150 and createGist up to the request (lines 108-119).
gistInput(p) ==
    /\ pc[p] = "CreateGist"
    /\ \E description \in Descriptions, isPrivate \in BOOLEAN,
          file \in DOMAIN fs \cup {MissingFile} :
          /\ filename' = [filename EXCEPT ![p] = file]
          /\ IF ~existsSync(file)
             THEN uncaught(p, ENOENT) /\ UNCHANGED <<code, gistData>>
             ELSE /\ code' = [code EXCEPT ![p] = fs[file]]
                  /\ gistData' = [gistData EXCEPT ![p] =
                        [description |-> IF description = <<>>
                                         THEN <<"Generated Code Gist">> ELSE description,
                         public |-> ~isPrivate,
                         file |-> file,
                         content |-> fs[file]]]
                  /\ goto(p, "GistPost", <<>>)
                  /\ UNCHANGED exitCode
    /\ UNCHANGED <<world, prompt, lang, formatterCmd, history>>

\* The request resolves (line 124), then continue.
gistCreated(p) ==
    /\ pc[p] = "GistPost"
    /\ nextIteration(p, << <<"Gist created">> >>)
    /\ UNCHANGED <<world, exitCode>>

\* The request rejects (lines 125-127), then continue.
gistFailed(p) ==
    /\ pc[p] = "GistPost"
    /\ nextIteration(p, << <<"Failed to create Gist:">> >>)
    /\ UNCHANGED <<world, exitCode>>

----------------------------------------------------------------------------
(* New Code (lines 155-183) *)

\* getPrompt, languageSelector, getFilename (lines 155-159).
newCodeInput(p, rawPrompts, indexes) ==
    /\ pc[p] = "NewCodeFlow"
    /\ \E raw \in rawPrompts, index \in indexes :
          LET l == languageSelector(index)
              ext == formatters[l].ext
          IN  /\ prompt' = [prompt EXCEPT ![p] = trim(raw)]
              /\ lang' = [lang EXCEPT ![p] = l]
              /\ filename' = [filename EXCEPT ![p] = getFilename(trim(raw), ext)]
    /\ goto(p, "Generating", << <<"Generating code...">> >>)
    /\ UNCHANGED <<world, exitCode, code, formatterCmd, history, gistData>>

\* Mutant: writeCode is skipped, the flow continues at the probe.
generateResolved_SkipsWrite(p, texts) ==
    /\ pc[p] = "Generating"
    /\ \E text \in texts : code' = [code EXCEPT ![p] = text]
    /\ goto(p, "Probe", <<>>)
    /\ UNCHANGED <<world, exitCode, prompt, lang, filename, formatterCmd, history, gistData>>

\* await generateCode resolves with the text (line 162).
generateResolved(p, texts) ==
    /\ pc[p] = "Generating"
    /\ \E text \in texts : code' = [code EXCEPT ![p] = text]
    /\ goto(p, "AskPreview", <<>>)
    /\ UNCHANGED <<world, exitCode, prompt, lang, filename, formatterCmd, history, gistData>>

\* Mutant: the file is written before the failure is noticed.
generateRejected_WritesFile(p) ==
    /\ pc[p] = "Generating"
    /\ \E msg \in GenerationErrors :
          /\ caught(p, msg)
          /\ fs' = writeData(filename[p], msg)
    /\ UNCHANGED <<now, clipboard, exitCode, locals>>

\* await generateCode rejects: the catch block reports it (lines 180-182).
generateRejected(p) ==
    /\ pc[p] = "Generating"
    /\ \E msg \in GenerationErrors : caught(p, msg)
    /\ UNCHANGED <<world, exitCode, locals>>

\* 'Preview code in terminal?' and previewCode (lines 163-164).
previewCode(p) ==
    /\ pc[p] = "AskPreview"
    /\ \E preview \in BOOLEAN :
          goto(p, "WriteOpen",
               IF preview THEN << <<"Preview:">>, highlight(code[p]) >> ELSE <<>>)
    /\ UNCHANGED <<world, exitCode, locals>>

\* Mutant: the file is opened with flag 'wx', which refuses an existing file.
writeCodeOpen_Exclusive(p) ==
    /\ pc[p] = "WriteOpen"
    /\ IF existsSync(filename[p])
       THEN caught(p, <<"EEXIST: file already exists">>) /\ fs' = fs
       ELSE fs' = openTruncate(filename[p]) /\ goto(p, "WriteData", <<>>)
    /\ UNCHANGED <<now, clipboard, exitCode, locals>>

\* writeCode (line 166): fs.writeFileSync opens the file ...
writeCodeOpen(p) ==
    /\ pc[p] = "WriteOpen"
    /\ fs' = openTruncate(filename[p])
    /\ goto(p, "WriteData", <<>>)
    /\ UNCHANGED <<now, clipboard, exitCode, locals>>

\* ... and writes the text; then 'Saved to'.
writeCode(p) ==
    /\ pc[p] = "WriteData"
    /\ fs' = writeData(filename[p], code[p])
    /\ goto(p, "Probe", << <<"Saved to ">> \o filename[p] >>)
    /\ UNCHANGED <<now, clipboard, exitCode, locals>>

\* Mutant: checkFormatter without its try: a failing probe reaches the catch
\* of main.
checkFormatter_Throws(p, probes) ==
    /\ pc[p] = "Probe"
    /\ \E installed \in probes :
          IF installed
          THEN /\ formatterCmd' = [formatterCmd EXCEPT ![p] = formatters[lang[p]].cmd]
               /\ goto(p, "AskFormat", <<>>)
          ELSE /\ formatterCmd' = formatterCmd
               /\ caught(p, <<"Command failed">>)
    /\ UNCHANGED <<world, exitCode, prompt, lang, filename, code, history, gistData>>

\* checkFormatter (line 168): the version probe succeeds or throws inside.
checkFormatter(p, probes) ==
    /\ pc[p] = "Probe"
    /\ \E installed \in probes :
          /\ formatterCmd' = [formatterCmd EXCEPT ![p] =
                                 IF installed THEN formatters[lang[p]].cmd ELSE null]
          /\ goto(p, IF installed THEN "AskFormat" ELSE "AskCopy", <<>>)
    /\ UNCHANGED <<world, exitCode, prompt, lang, filename, code, history, gistData>>

\* 'Format with ...?' (lines 169-171)
askFormat(p) ==
    /\ pc[p] = "AskFormat"
    /\ formatterCmd[p] # null
    /\ \E shouldFormat \in BOOLEAN :
          goto(p, IF shouldFormat THEN "Format" ELSE "AskCopy", <<>>)
    /\ UNCHANGED <<world, exitCode, locals>>

\* formatCode: the formatter rewrites the file in place, or fails.
formatCode(p) ==
    /\ pc[p] = "Format"
    /\ \E ok \in BOOLEAN :
          IF ok /\ existsSync(filename[p])
          THEN /\ fs' = writeData(filename[p], formatted(fs[filename[p]]))
               /\ goto(p, "AskCopy", << <<"Code formatted">> >>)
          ELSE /\ fs' = fs
               /\ goto(p, "AskCopy", << <<"Formatter error">> >>)
    /\ UNCHANGED <<now, clipboard, exitCode, locals>>

\* Mutant: declining the copy also skips saveHistory.
askCopy_SkipsHistory(p, answers) ==
    /\ pc[p] = "AskCopy"
    /\ \E shouldCopy \in answers :
          goto(p, IF shouldCopy THEN "Copy" ELSE "DoneReturn", <<>>)
    /\ UNCHANGED <<world, exitCode, locals>>

\* 'Copy code to clipboard?' (lines 174-175)
askCopy(p, answers) ==
    /\ pc[p] = "AskCopy"
    /\ \E shouldCopy \in answers :
          goto(p, IF shouldCopy THEN "Copy" ELSE "SaveRead", <<>>)
    /\ UNCHANGED <<world, exitCode, locals>>

\* Mutant: copyToClipboard without its try: a failure reaches the catch of main.
copyToClipboard_Throws(p) ==
    /\ pc[p] = "Copy"
    /\ \E ok \in BOOLEAN :
          IF ok
          THEN /\ clipboard' = code[p]
               /\ goto(p, "SaveRead", << <<"Copied to clipboard">> >>)
          ELSE /\ clipboard' = clipboard
               /\ caught(p, <<"Command failed">>)
    /\ UNCHANGED <<fs, now, exitCode, locals>>

\* copyToClipboard: a failure is swallowed.
copyToClipboard(p) ==
    /\ pc[p] = "Copy"
    /\ \E ok \in BOOLEAN :
          IF ok
          THEN /\ clipboard' = code[p]
               /\ goto(p, "SaveRead", << <<"Copied to clipboard">> >>)
          ELSE /\ clipboard' = clipboard
               /\ goto(p, "SaveRead", <<>>)
    /\ UNCHANGED <<fs, now, exitCode, locals>>

\* Mutant: the log is not loaded, every save starts from [].
loadHistory_Fresh == [ok |-> TRUE, v |-> JArr(<<>>), rest |-> <<>>]

\* Mutant: content that cannot be used is taken for an empty log.
loadHistory_EmptyOnError ==
    IF existsSync(historyPath) /\ parse(fs[historyPath]).ok
                               /\ parse(fs[historyPath]).v.t = "array"
    THEN parse(fs[historyPath])
    ELSE [ok |-> TRUE, v |-> JArr(<<>>), rest |-> <<>>]

\* saveHistory, lines 88-91: [] unless the file exists, else its parsed text.
loadHistory ==
    IF existsSync(historyPath) THEN parse(fs[historyPath])
    ELSE [ok |-> TRUE, v |-> JArr(<<>>), rest |-> <<>>]

\* saveHistory, lines 88-92: load the log and push the entry.
saveHistory(p) ==
    /\ pc[p] = "SaveRead"
    /\ LET entry == HistoryEntry(toISOString(now), prompt[p], lang[p], filename[p])
           r == loadHistory
       IN  IF ~r.ok
           THEN caught(p, SyntaxError) /\ UNCHANGED history
           ELSE IF r.v.t # "array"
           THEN caught(p, PushTypeError) /\ history' = [history EXCEPT ![p] = r.v]
           ELSE /\ history' = [history EXCEPT ![p] = JArr(Append(r.v.v, entry))]
                /\ goto(p, "SaveOpen", <<>>)
    /\ UNCHANGED <<world, exitCode, prompt, lang, filename, code, formatterCmd, gistData>>

\* saveHistory, line 93: fs.writeFileSync opens the history file ...
saveHistoryOpen(p) ==
    /\ pc[p] = "SaveOpen"
    /\ fs' = openTruncate(historyPath)
    /\ goto(p, "SaveWrite", <<>>)
    /\ UNCHANGED <<now, clipboard, exitCode, locals>>

\* Mutant: only the new entry is written.
saveHistoryWrite_OnlyNewEntry(p) ==
    /\ pc[p] = "SaveWrite"
    /\ fs' = writeData(historyPath,
                       stringify(JArr(<<history[p].v[Len(history[p].v)]>>)))
    /\ goto(p, "DoneReturn", << <<"Done. Press Enter to return...">> >>)
    /\ UNCHANGED <<now, clipboard, exitCode, locals>>

\* ... and writes the whole log.
saveHistoryWrite(p) ==
    /\ pc[p] = "SaveWrite"
    /\ fs' = writeData(historyPath, stringify(history[p]))
    /\ goto(p, "DoneReturn", << <<"Done. Press Enter to return...">> >>)
    /\ UNCHANGED <<now, clipboard, exitCode, locals>>

\* Enter after 'Done.' (line 179)
doneReturn(p) ==
    /\ pc[p] = "DoneReturn"
    /\ nextIteration(p, <<>>)
    /\ UNCHANGED <<world, exitCode>>

\* Enter after the error report (line 182)
errReturn(p) ==
    /\ pc[p] = "ErrReturn"
    /\ nextIteration(p, <<>>)
    /\ UNCHANGED <<world, exitCode>>

----------------------------------------------------------------------------
(* One interactive session *)

MaxClock == 3

RawPrompts ==
    { <<"S","o","r","t"," ","l","i","s","t">>,
      <<"s","o","r","t"," "," "," ","l","i","s","t">> }

LangChoices == {-1, 0}

Texts == { <<"a", "=", "1">> }

Init == InitWith({1}, HistoryContents)

Next ==
    \E p \in Procs :
        \/ exit(p)
        \/ selectNewCode(p, MaxClock)
        \/ selectViewHistory(p, MaxClock)
        \/ selectCreateGist(p, MaxClock)
        \/ viewHistory(p)
        \/ viewReturn(p)
        \/ gistInput(p)
        \/ gistCreated(p)
        \/ gistFailed(p)
        \/ newCodeInput(p, RawPrompts, LangChoices)
        \/ generateResolved(p, Texts)
        \/ generateRejected(p)
        \/ previewCode(p)
        \/ writeCodeOpen(p)
        \/ writeCode(p)
        \/ checkFormatter(p, BOOLEAN)
        \/ askFormat(p)
        \/ formatCode(p)
        \/ askCopy(p, BOOLEAN)
        \/ copyToClipboard(p)
        \/ saveHistory(p)
        \/ saveHistoryOpen(p)
        \/ saveHistoryWrite(p)
        \/ doneReturn(p)
        \/ errReturn(p)

Spec == Init /\ [][Next]_vars

----------------------------------------------------------------------------
(* What the history file holds *)

\* The file parsed as saveHistory and viewHistory parse it; an absent file
\* is the empty log.
PersistedIn(f) ==
    IF historyPath \in DOMAIN f THEN parse(f[historyPath])
    ELSE [ok |-> TRUE, v |-> JArr(<<>>), rest |-> <<>>]

Persisted == PersistedIn(fs)

IsArrayText(text) == parse(text).ok /\ parse(text).v.t = "array"

IsEntry(item) ==
    /\ item.t = "object"
    /\ \A key \in {<<"timestamp">>, <<"prompt">>, <<"lang">>, <<"file">>} :
          Member(item, key).t = "string"

IsEntryLogText(text) ==
    /\ IsArrayText(text)
    /\ \A i \in 1..Len(parse(text).v.v) : IsEntry(parse(text).v.v[i])

\* The entry the iteration of p appends.
EntryOf(p) == HistoryEntry(toISOString(now), prompt[p], lang[p], filename[p])

----------------------------------------------------------------------------
(* C1 *)

\* C1: when the generation call of a New Code iteration rejects, no file is
\* written and no history entry is appended (the file system is left as it
\* was from the prompt to the return), the error message is printed, and the
\* next state is MainMenu.
C1_GenerationFailure ==
    [][\A p \in Procs :
          /\ (pc[p] \in {"NewCodeFlow", "Generating"} /\ pc'[p] # pc[p]) => fs' = fs
          /\ (pc[p] = "Generating" /\ pc'[p] = "ErrReturn") =>
                \E msg \in GenerationErrors : stdout'[p] = <<ErrorLine(msg)>>
          /\ (pc[p] = "ErrReturn" /\ code[p] = NotSet /\ pc'[p] # pc[p]) =>
                pc'[p] = "MainMenu" /\ fs' = fs
      ]_vars

\* A rejected generation is waiting for Enter, with a history file on disk.
C1_Witness ==
    /\ pc[1] = "ErrReturn"
    /\ code[1] = NotSet
    /\ prompt[1] # NotSet
    /\ existsSync(historyPath)
    /\ \E msg \in GenerationErrors : stdout[1] = <<ErrorLine(msg)>>

----------------------------------------------------------------------------
(* C3 *)

Front(xs) == SubSeq(xs, 1, Len(xs) - 1)

\* Between the two system calls of a save the file is empty and the log is
\* the one the saving process read (its in-memory copy without the new
\* entry); in every other state it is the parsed file.
Saving(c) == \E p \in Procs : c[p] = "SaveWrite"
HasLogIn(f, c) ==
    Saving(c) \/ (LET r == PersistedIn(f) IN r.ok /\ r.v.t = "array")
LogIn(f, c, h) ==
    IF Saving(c) THEN Front(h[CHOOSE p \in Procs : c[p] = "SaveWrite"].v)
    ELSE PersistedIn(f).v.v

Extends(old, new) ==
    \/ new = old
    \/ Len(new) = Len(old) + 1 /\ SubSeq(new, 1, Len(old)) = old

\* C3: the history log is append-only across the menu actions of one
\* process: every step leaves the log as it was or adds exactly one entry at
\* its end (so the log of an earlier state is a prefix of the log of every
\* later state), a completed save adds one entry, and content that is no log
\* is never touched.
C3_AppendOnly ==
    [][\/ fs' = fs /\ Saving(pc') = Saving(pc)
       \/ IF HasLogIn(fs, pc)
          THEN /\ HasLogIn(fs', pc')
               /\ LET old == LogIn(fs, pc, history)
                      new == LogIn(fs', pc', history')
                  IN  /\ Extends(old, new)
                      /\ \A p \in Procs :
                            (pc[p] = "SaveWrite" /\ pc'[p] = "DoneReturn") =>
                                new = Append(old, EntryOf(p))
          ELSE fs'[historyPath] = fs[historyPath]
      ]_vars

\* Two saves have completed on top of the entry the file held at the start.
C3_Witness ==
    /\ pc[1] = "DoneReturn"
    /\ Persisted.ok
    /\ Persisted.v.t = "array"
    /\ Len(Persisted.v.v) = 3
    /\ Persisted.v.v[1] = OldEntry

----------------------------------------------------------------------------
(* C4 *)

\* C4: a process terminates only from MainMenu (Exit or cancel): no failure
\* in any branch ends it, and the state after a failure is MainMenu.
C4_OnlyExitTerminates ==
    [][\A p \in Procs :
          (pc'[p] = "Terminated" /\ pc[p] # "Terminated") =>
              pc[p] = "MainMenu" /\ exitCode'[p] = 0
      ]_vars

----------------------------------------------------------------------------
(* C5 *)

Flow == <<"AskPreview", "WriteOpen", "WriteData", "Probe", "AskFormat", "Format",
          "AskCopy", "Copy", "SaveRead", "SaveOpen", "SaveWrite", "DoneReturn">>

Rank(label) == IndexOf(Flow, label)

GeneratedIn(f) == [path \in DOMAIN f \ {historyPath} |-> f[path]]

\* One step of p after a successful generation.  errorsAllowed says whether
\* the step may end in the catch block.
SuccessStep(p, errorsAllowed) ==
    (pc[p] \in Range(Flow) /\ pc'[p] # pc[p]) =>
        /\ pc'[p] \in Range(Flow) \cup {"MainMenu"} \cup
                      (IF errorsAllowed THEN {"ErrReturn"} ELSE {})
        /\ pc'[p] = "ErrReturn" =>
              /\ pc[p] = "SaveRead"
              /\ existsSync(historyPath) /\ ~IsArrayText(fs[historyPath])
              /\ fs' = fs
        /\ pc'[p] = "MainMenu" => pc[p] = "DoneReturn" /\ fs' = fs
        /\ pc'[p] \in Range(Flow) => Rank(pc'[p]) > Rank(pc[p])
        /\ pc[p] \notin {"WriteOpen", "WriteData", "Format"} =>
              GeneratedIn(fs') = GeneratedIn(fs)
        /\ pc[p] = "WriteData" => fs'[filename[p]] = code[p]
        /\ pc[p] = "Format" => fs'[filename[p]] \in {code[p], formatted(code[p])}
        /\ pc'[p] = "DoneReturn" =>
              /\ fs'[filename[p]] \in {code[p], formatted(code[p])}
              /\ PersistedIn(fs').ok
              /\ PersistedIn(fs').v = history[p]
              /\ history[p].v = Append(Front(history[p].v), EntryOf(p))

\* C5 as claimed: after a successful generation every combination of
\* answers writes the text once and appends one entry before MainMenu.
C5_SuccessAlwaysRecorded ==
    [][\A p \in Procs : SuccessStep(p, FALSE)]_vars

\* C5 amended: after a successful generation the text is written to the
\* derived file exactly once for every combination of answers, and exactly
\* one entry is appended before MainMenu provided the history file is absent
\* or holds a JSON array when the append reads it; otherwise the append
\* reports the error, nothing is appended and the written file stays.
C5_SuccessRecordedUnlessHistoryUnusable ==
    [][\A p \in Procs :
          /\ SuccessStep(p, TRUE)
          /\ (pc[p] = "SaveRead" /\ pc'[p] # pc[p]
                /\ (existsSync(historyPath) => IsArrayText(fs[historyPath])))
             => pc'[p] = "SaveOpen"
          /\ (pc[p] = "ErrReturn" /\ code[p] # NotSet) =>
                fs[filename[p]] \in {code[p], formatted(code[p])}
      ]_vars

\* The iteration formatted the file, copied the text and appended its entry.
C5_Witness ==
    /\ pc[1] = "DoneReturn"
    /\ fs[filename[1]] = formatted(code[1])
    /\ clipboard = code[1]
    /\ Persisted.ok
    /\ Persisted.v = history[1]
    /\ Len(history[1].v) >= 2

----------------------------------------------------------------------------
(* C8 *)

\* C8: View History without a history file shows no entry and raises no
\* error: it prints the notice, does not create the file, leaves the file
\* system alone, and the loop returns to MainMenu.
C8_ViewWithoutFile ==
    [][\A p \in Procs :
          /\ (pc[p] = "ViewHistory" /\ pc'[p] # pc[p] /\ ~existsSync(historyPath)) =>
                /\ pc'[p] = "ViewReturn"
                /\ exitCode'[p] = 0
                /\ stdout'[p] = << <<"No history yet.">> >>
                /\ fs' = fs
          /\ (pc[p] = "ViewReturn" /\ pc'[p] # pc[p]) => pc'[p] = "MainMenu" /\ fs' = fs
      ]_vars

\* View History has answered on a file system without the history file.
C8_Witness ==
    /\ pc[1] = "ViewReturn"
    /\ ~existsSync(historyPath)
    /\ stdout[1] = << <<"No history yet.">> >>

----------------------------------------------------------------------------
(* C9 *)

\* One step of saveHistory on stored content that satisfies unusable: the
\* append fails into the catch block, the error is printed, the file system
\* is unchanged, and it stays unchanged until MainMenu.
FailsLoudly(p, unusable(_)) ==
    /\ (pc[p] = "SaveRead" /\ pc'[p] # pc[p]
          /\ existsSync(historyPath) /\ unusable(fs[historyPath])) =>
             /\ pc'[p] = "ErrReturn"
             /\ stdout'[p] \in { <<ErrorLine(SyntaxError)>>, <<ErrorLine(PushTypeError)>> }
             /\ fs' = fs
    /\ (pc[p] = "ErrReturn" /\ pc'[p] # pc[p]) => pc'[p] = "MainMenu" /\ fs' = fs

NotEntryLog(text) == ~IsEntryLogText(text)
NotArray(text) == ~IsArrayText(text)

\* C9 as claimed: append on content that does not deserialize to a sequence
\* of entries fails with an error and leaves the stored content unchanged.
C9_FailsOnAnyNonEntryLog ==
    [][\A p \in Procs : FailsLoudly(p, NotEntryLog)]_vars

\* C9 amended: append on content that is not JSON, or is JSON but not an
\* array, fails with an error and leaves the stored content unchanged and no
\* entry added.  (An array whose elements are not entries is accepted: the
\* entry is appended after them.)
C9_FailsOnNonArray ==
    [][\A p \in Procs : FailsLoudly(p, NotArray)]_vars

\* The append has failed on content that is not a JSON array.
C9_Witness ==
    /\ pc[1] = "ErrReturn"
    /\ code[1] # NotSet
    /\ existsSync(historyPath)
    /\ ~IsArrayText(fs[historyPath])
    /\ stdout[1] \in { <<ErrorLine(SyntaxError)>>, <<ErrorLine(PushTypeError)>> }

----------------------------------------------------------------------------
(* C10 *)

WellFormedIn(f) == historyPath \in DOMAIN f => IsEntryLogText(f[historyPath])

\* C10: the history file, if present, always deserializes to a well-formed
\* sequence of entries, also at any point during a save: no step takes a
\* well-formed (or absent) file to one that is not.
C10_NoPartialContent ==
    [][WellFormedIn(fs) => WellFormedIn(fs')]_vars

----------------------------------------------------------------------------
(* C2: a session that starts without a history file and appends more       *)
(* entries than View History shows                                         *)

MaxHistoryClock == 8

\* Two prompts with one file name; the session has no formatter installed
\* and never copies.
HistoryPrompts == { <<"a", Quote>>, <<"a", Backslash>> }

InitHistory == InitWith({1}, {})

NextHistory ==
    \E p \in Procs :
        \/ exit(p)
        \/ selectNewCode(p, MaxHistoryClock)
        \/ selectViewHistory(p, MaxHistoryClock)
        \/ viewHistory(p)
        \/ viewReturn(p)
        \/ newCodeInput(p, HistoryPrompts, {-1})
        \/ generateResolved(p, {<<"a">>})
        \/ previewCode(p)
        \/ writeCodeOpen(p)
        \/ writeCode(p)
        \/ checkFormatter(p, {FALSE})
        \/ askCopy(p, {FALSE})
        \/ saveHistory(p)
        \/ saveHistoryOpen(p)
        \/ saveHistoryWrite(p)
        \/ doneReturn(p)

SpecHistory == InitHistory /\ [][NextHistory]_vars

\* The last min(n, Len(log)) entries of log, in the order of log.
LastEntries(log, n) ==
    LET k == IF n < Len(log) THEN n ELSE Len(log)
    IN  [i \in 1..k |-> log[Len(log) - k + i]]

\* C2: starting from absent storage, every append leaves in the file the
\* log it read followed by the entry with the iteration's timestamp, prompt,
\* language and file path, and View History shows exactly the last
\* min(5, length) entries of the file, in insertion order, with their
\* stored field values.
C2_AppendThenRecent ==
    [][\A p \in Procs :
          /\ (pc[p] = "SaveRead" /\ pc'[p] = "SaveOpen") =>
                history'[p] = JArr(Append(Persisted.v.v, EntryOf(p)))
          /\ (pc[p] = "SaveWrite" /\ pc'[p] = "DoneReturn") =>
                PersistedIn(fs').ok /\ PersistedIn(fs').v = history[p]
          /\ (pc[p] = "ViewHistory" /\ pc'[p] # pc[p]) =>
                /\ pc'[p] = "ViewReturn"
                /\ LET shown == LastEntries(Persisted.v.v, RecentCount)
                   IN  IF existsSync(historyPath)
                       THEN Tail(stdout'[p]) =
                               [i \in 1..Len(shown) |-> HistoryLine(shown[i], i)]
                       ELSE stdout'[p] = << <<"No history yet.">> >>
      ]_vars

\* View History has shown five of more than five appended entries.
C2_Witness ==
    /\ pc[1] = "ViewReturn"
    /\ Persisted.ok
    /\ Len(Persisted.v.v) > RecentCount
    /\ Len(stdout[1]) = RecentCount + 1
    /\ \A i \in 1..Len(Persisted.v.v) : IsEntry(Persisted.v.v[i])

----------------------------------------------------------------------------
(* C6: generations whose prompts meet in one file name *)

MaxOverwriteClock == 3

SortList        == <<"S","o","r","t"," ","l","i","s","t">>
SortThreeSpaces == <<"s","o","r","t"," "," "," ","l","i","s","t">>
SortOneSpace    == <<"s","o","r","t"," ","l","i","s","t">>

OverwriteTexts == { <<"a", "=", "1">>, <<"a", "=", "2">> }

InitOverwrite == InitWith({1}, {})

NextOverwrite ==
    \E p \in Procs :
        \/ exit(p)
        \/ selectNewCode(p, MaxOverwriteClock)
        \/ newCodeInput(p, {SortList, SortThreeSpaces, SortOneSpace}, {-1})
        \/ generateResolved(p, OverwriteTexts)
        \/ previewCode(p)
        \/ writeCodeOpen(p)
        \/ writeCode(p)
        \/ checkFormatter(p, {FALSE})
        \/ askCopy(p, BOOLEAN)
        \/ copyToClipboard(p)
        \/ saveHistory(p)
        \/ saveHistoryOpen(p)
        \/ saveHistoryWrite(p)
        \/ doneReturn(p)

SpecOverwrite == InitOverwrite /\ [][NextOverwrite]_vars

\* The fields of the entries of the history file.
LogField(i, key) == Member(Persisted.v.v[i], <<key>>).v

SortListFile(l) ==
    outputDir \o <<Sep, "s","o","r","t","_","l","i","s","t">> \o formatters[l].ext
SortThreeSpacesFile(l) ==
    outputDir \o <<Sep, "s","o","r","t","_","_","_","l","i","s","t">> \o formatters[l].ext

\* C6 as claimed: a generation for "Sort list" and a later one for
\* "sort   list" (three spaces) in the same language have the same file,
\* sort_list{ext}.
C6_ThreeSpacesSameFile ==
    Persisted.ok =>
        \A i, j \in 1..Len(Persisted.v.v) :
            (/\ i < j
             /\ LogField(i, "prompt") = SortList
             /\ LogField(j, "prompt") = SortThreeSpaces
             /\ LogField(i, "lang") = LogField(j, "lang")) =>
                /\ LogField(i, "file") = LogField(j, "file")
                /\ LogField(i, "file") = SortListFile(LogField(i, "lang")[1])

\* C6 amended: "Sort list" and "sort list" (one space) derive the same
\* file sort_list{ext}, while "sort   list" (three spaces) derives
\* sort___list{ext}; two prompts that normalize to the same string are
\* written to the same path, the later generation is not refused and its
\* write replaces the content of the file.
C6_SameNameOverwrites ==
    /\ Persisted.ok =>
          \A i, j \in 1..Len(Persisted.v.v) :
             /\ LogField(i, "prompt") \in {SortList, SortOneSpace} =>
                   LogField(i, "file") = SortListFile(LogField(i, "lang")[1])
             /\ LogField(i, "prompt") = SortThreeSpaces =>
                   LogField(i, "file") = SortThreeSpacesFile(LogField(i, "lang")[1])
             /\ (/\ LogField(i, "lang") = LogField(j, "lang")
                 /\ toLowerCase(replaceUnsafe(LogField(i, "prompt")))
                      = toLowerCase(replaceUnsafe(LogField(j, "prompt")))) =>
                   LogField(i, "file") = LogField(j, "file")
    /\ \A p \in Procs :
          /\ pc[p] # "ErrReturn"
          /\ pc[p] = "Probe" => fs[filename[p]] = code[p]

\* The second generation, for another prompt with the same file, has just
\* written its text over the text of the first (still on the clipboard).
C6_Witness ==
    /\ pc[1] = "Probe"
    /\ Persisted.ok
    /\ Len(Persisted.v.v) = 1
    /\ LogField(1, "file") = filename[1]
    /\ LogField(1, "prompt") # prompt[1]
    /\ clipboard \in OverwriteTexts
    /\ clipboard # code[1]
    /\ fs[filename[1]] = code[1]

----------------------------------------------------------------------------
(* C7: file name derivation over bounded prompts and every language *)

MaxPromptLen == 3
MaxFilenameClock == 2

PromptUnits == {"a", "Z", "7", " ", "/", ".", KelvinSign, CapitalIDot}

FibonacciPrompt ==
    <<"F","i","b","o","n","a","c","c","i"," ","f","u","n","c","t","i","o","n","!","!">>

BoundedPrompts ==
    UNION {[1..n -> PromptUnits] : n \in 0..MaxPromptLen}
        \cup {FibonacciPrompt, SortList, SortThreeSpaces}

AllChoices == -1..(Len(options) - 1)

InitFilename == InitWith({1}, HistoryContents)

NextFilename ==
    \E p \in Procs :
        \/ exit(p)
        \/ selectNewCode(p, MaxFilenameClock)
        \/ newCodeInput(p, BoundedPrompts, AllChoices)
        \/ generateRejected(p)
        \/ errReturn(p)

SpecFilename == InitFilename /\ [][NextFilename]_vars

\* The reference rule: lowercase the prompt, replace each character outside
\* [a-z0-9] by one '_', append the extension, place under the output directory.
RefName(text) ==
    LET low == toLowerCase(text)
    IN  [i \in 1..Len(low) |->
            IF low[i] \in Range(LowerCase) \cup Range(Digit) THEN low[i] ELSE "_"]

RefFilename(text, l) == outputDir \o <<Sep>> \o RefName(text) \o formatters[l].ext

FibonacciFile ==
    outputDir \o <<Sep, "f","i","b","o","n","a","c","c","i","_","f","u","n","c","t",
                   "i","o","n","_","_",".","p","y">>

NonAscii == {KelvinSign, CapitalIDot, CombiningDot}

AsciiOrUnderscore(text) ==
    [i \in 1..Len(text) |-> IF text[i] \in NonAscii THEN "_" ELSE text[i]]

\* C7 as claimed: for every prompt and supported language the derived file
\* name equals the reference rule.
C7_EqualsReferenceRule ==
    \A p \in Procs :
        pc[p] = "Generating" => filename[p] = RefFilename(prompt[p], lang[p])

\* C7 amended: the derived file name equals the reference rule for every
\* prompt of ASCII characters and supported language; a non-ASCII character
\* is always replaced by one '_' (also when its lower case is an ASCII
\* letter or has two code units), so in general the name is the reference
\* rule applied to the prompt with its non-ASCII code units replaced by '_'.
\* It is a function of prompt and language; "Fibonacci function!!" with
\* Python gives fibonacci_function__.py.
C7_EqualsReferenceRuleOnAscii ==
    \A p \in Procs :
        pc[p] = "Generating" =>
            /\ filename[p] = RefFilename(AsciiOrUnderscore(prompt[p]), lang[p])
            /\ (prompt[p] = FibonacciPrompt /\ lang[p] = "Python") =>
                   filename[p] = FibonacciFile

\* The example of the claim has been derived.
C7_Witness ==
    /\ pc[1] = "Generating"
    /\ prompt[1] = FibonacciPrompt
    /\ lang[1] = "Python"
    /\ filename[1] = FibonacciFile

----------------------------------------------------------------------------
(* C11: sessions that try every optional step, on a usable history *)

MaxOptionalClock == 2

InitOptional == InitWith({1}, {WellFormedHistory})

\* The user answers yes to 'Format with ...?'.
confirmFormat(p) == askFormat(p) /\ pc'[p] = "Format"

NextOptional ==
    \E p \in Procs :
        \/ exit(p)
        \/ selectNewCode(p, MaxOptionalClock)
        \/ newCodeInput(p, RawPrompts, LangChoices)
        \/ generateResolved(p, Texts)
        \/ previewCode(p)
        \/ writeCodeOpen(p)
        \/ writeCode(p)
        \/ checkFormatter(p, BOOLEAN)
        \/ confirmFormat(p)
        \/ formatCode(p)
        \/ askCopy(p, {TRUE})
        \/ copyToClipboard(p)
        \/ saveHistory(p)
        \/ saveHistoryOpen(p)
        \/ saveHistoryWrite(p)
        \/ doneReturn(p)

SpecOptional == InitOptional /\ [][NextOptional]_vars

\* C11: a formatter that fails, or a clipboard copy that fails, leaves the
\* written file as it is (not rolled back, not deleted), the flow goes on to
\* the next step, never to the catch block, and MainMenu is reached only
\* after the history entry of the iteration has been appended.
C11_OptionalFailuresContinue ==
    [][\A p \in Procs :
          /\ SuccessStep(p, FALSE)
          /\ (pc[p] = "Format" /\ pc'[p] # pc[p]
                /\ stdout'[p] = << <<"Formatter error">> >>) =>
                /\ fs' = fs
                /\ fs'[filename[p]] = code[p]
                /\ pc'[p] = "AskCopy"
          /\ (pc[p] = "Copy" /\ pc'[p] # pc[p]) =>
                /\ fs' = fs
                /\ filename[p] \in DOMAIN fs'
                /\ pc'[p] = "SaveRead"
                /\ clipboard' \in {clipboard, code[p]}
          /\ (pc[p] = "DoneReturn" /\ pc'[p] # pc[p]) =>
                /\ pc'[p] = "MainMenu"
                /\ filename[p] \in DOMAIN fs'
                /\ LET log == PersistedIn(fs').v.v
                   IN  log # <<>> /\ log[Len(log)] = EntryOf(p)
      ]_vars

\* The formatter was run and failed, the copy was tried and failed, and the
\* entry of the iteration is the last of the history file.
C11_Witness ==
    /\ pc[1] = "DoneReturn"
    /\ formatterCmd[1] # null
    /\ fs[filename[1]] = code[1]
    /\ clipboard = <<>>
    /\ Persisted.ok
    /\ Len(Persisted.v.v) = 2
    /\ Persisted.v.v[2] = EntryOf(1)

----------------------------------------------------------------------------
(* C12: one process, or two processes in the same directory *)

MaxConcurrentClock == 3

\* Each process is given its own prompt, so the entries can be told apart.
ConcurrentPrompt == [p \in Procs |-> IF p = 1 THEN <<"a">> ELSE <<"b">>]

InitConcurrent == \E started \in {{1}, Procs} : InitWith(started, {})

\* The user answers no to 'Preview code in terminal?'.
declinePreview(p) == previewCode(p) /\ stdout'[p] = <<>>

NextConcurrent ==
    \E p \in Procs :
        \/ exit(p)
        \/ selectNewCode(p, MaxConcurrentClock)
        \/ newCodeInput(p, {ConcurrentPrompt[p]}, {-1})
        \/ generateResolved(p, Texts)
        \/ declinePreview(p)
        \/ writeCodeOpen(p)
        \/ writeCode(p)
        \/ checkFormatter(p, {FALSE})
        \/ askCopy(p, {FALSE})
        \/ saveHistory(p)
        \/ saveHistoryOpen(p)
        \/ saveHistoryWrite(p)
        \/ doneReturn(p)
        \/ errReturn(p)

SpecConcurrent == InitConcurrent /\ [][NextConcurrent]_vars

Quiescent == \A p \in Procs : pc[p] \in {"NotStarted", "MainMenu", "Terminated"}

LastOf(xs) == xs[Len(xs)]

\* C12, one process: with process 2 never started, every append succeeds
\* and is retained: when process 1 is back at the menu the file holds one
\* entry per New Code selection made so far (the clock counts them), and a
\* completed save has added its entry to all the entries it found.  With two
\* processes a save replaces the file by the copy the saving process read
\* plus its entry, whatever the other has written since, and the file never
\* holds more entries than selections were made.
C12_SingleProcessRetainsEveryAppend ==
    [][LET new == PersistedIn(fs') IN
       /\ \A p \in Procs :
             (pc[p] = "SaveWrite" /\ pc'[p] = "DoneReturn") =>
                 (new.ok /\ new.v = history[p])
       /\ Quiescent' =>
             (new.ok /\ new.v.t = "array" /\ Len(new.v.v) <= now' - 1)
       /\ pc[2] = "NotStarted" =>
             /\ \A p \in Procs : pc'[p] # "ErrReturn"
             /\ Quiescent' => Len(new.v.v) = now' - 1
             /\ (pc[1] = "SaveWrite" /\ pc'[1] = "DoneReturn") =>
                   new.v.v = Append(Front(history[1].v), LastOf(history[1].v))
             /\ (pc[1] = "SaveOpen" /\ pc'[1] = "SaveWrite") =>
                   PersistedIn(fs).v.v = Front(history[1].v)
      ]_vars

\* C12, two processes: both saves have completed and the file lacks the
\* entry process 1 appended (lost update).
C12_Witness ==
    /\ pc[1] = "DoneReturn"
    /\ pc[2] = "DoneReturn"
    /\ Persisted.ok
    /\ LastOf(history[1].v) # LastOf(history[2].v)
    /\ LastOf(history[2].v) \in Range(Persisted.v.v)
    /\ LastOf(history[1].v) \notin Range(Persisted.v.v)

----------------------------------------------------------------------------
(* C13 *)

HistoryFileIn(f) == IF historyPath \in DOMAIN f THEN <<f[historyPath]>> ELSE <<>>

\* The entries of the file f that the session wrote: every entry but the
\* one the file held at the start.
OwnEntriesIn(f) ==
    LET r == PersistedIn(f) IN
    IF r.ok /\ r.v.t = "array"
    THEN {r.v.v[i] : i \in {j \in 1..Len(r.v.v) : IsEntry(r.v.v[j]) /\ r.v.v[j] # OldEntry}}
    ELSE {}

EntryField(e, key) == Member(e, <<key>>).v

\* C13: the steps of an iteration come in the order generate, write file,
\* format, copy, append history (a step only moves forward in that order),
\* generated files change only in the write and format steps, the clipboard
\* only in the copy step and the history file only in the append, after
\* which nothing changes until MainMenu; so every entry the session has
\* written names a file that exists, written by the iteration of the entry
\* before the append, and that path is the file name derived from the prompt and language of the entry.
C13_HistoryAppendLast ==
    [][/\ \A p \in Procs :
             /\ (pc'[p] # pc[p] /\ pc'[p] \in Range(Flow)) =>
                   IF pc[p] \in Range(Flow) THEN Rank(pc'[p]) > Rank(pc[p])
                   ELSE pc[p] = "Generating" /\ pc'[p] = "AskPreview"
             /\ (pc[p] \in {"SaveWrite", "DoneReturn"} /\ pc'[p] # pc[p]) =>
                   /\ filename[p] \in DOMAIN fs
                   /\ fs[filename[p]] \in {code[p], formatted(code[p])}
                   /\ filename[p] = getFilename(prompt[p], formatters[lang[p]].ext)
             /\ (pc[p] = "DoneReturn" /\ pc'[p] # pc[p]) =>
                   pc'[p] = "MainMenu" /\ fs' = fs /\ clipboard' = clipboard
       /\ GeneratedIn(fs') # GeneratedIn(fs) =>
             \E p \in Procs : pc[p] \in {"WriteOpen", "WriteData", "Format"}
       /\ clipboard' # clipboard => \E p \in Procs : pc[p] = "Copy"
       /\ HistoryFileIn(fs') # HistoryFileIn(fs) =>
             \E p \in Procs : pc[p] \in {"SaveOpen", "SaveWrite"}
       /\ \A e \in OwnEntriesIn(fs') :
             /\ EntryField(e, "file") \in DOMAIN fs' \ {historyPath}
             /\ EntryField(e, "lang")[1] \in Range(options)
             /\ EntryField(e, "file") =
                   getFilename(EntryField(e, "prompt"),
                               formatters[EntryField(e, "lang")[1]].ext)
      ]_vars

\* Two iterations have appended their entries, each after writing its file.
C13_Witness ==
    /\ pc[1] = "MainMenu"
    /\ Cardinality(OwnEntriesIn(fs)) = 2
    /\ \A e \in OwnEntriesIn(fs) : EntryField(e, "file") \in DOMAIN fs

----------------------------------------------------------------------------
(* C14 *)

\* C14: the formatter runs only after the probe of this iteration returned
\* the command of the language and the user said yes to the question; a
\* failing probe returns null without raising and without touching a file,
\* the question is then not asked, and the flow goes on with the clipboard
\* question and the history append.
C14_FormatterOnlyAfterProbe ==
    [][\A p \in Procs :
          /\ (pc[p] = "Probe" /\ pc'[p] # pc[p]) =>
                /\ pc'[p] \in {"AskFormat", "AskCopy"}
                /\ formatterCmd'[p] \in {null, formatters[lang[p]].cmd}
                /\ (pc'[p] = "AskCopy") = (formatterCmd'[p] = null)
                /\ fs' = fs
                /\ exitCode' = exitCode
          /\ (pc'[p] = "AskFormat" /\ pc'[p] # pc[p]) => pc[p] = "Probe"
          /\ (pc'[p] = "Format" /\ pc'[p] # pc[p]) =>
                /\ pc[p] = "AskFormat"
                /\ formatterCmd[p] = formatters[lang[p]].cmd
          /\ (pc[p] # "Format" /\ pc'[p] # pc[p]) =>
                stdout'[p] \notin { << <<"Code formatted">> >>, << <<"Formatter error">> >> }
          /\ (pc[p] \notin {"Probe", "NotStarted"}) => formatterCmd'[p] \in {formatterCmd[p], NotSet}
          /\ (pc[p] = "AskCopy" /\ pc'[p] # pc[p]) => pc'[p] \in {"Copy", "SaveRead"}
          /\ (pc[p] = "Copy" /\ pc'[p] # pc[p]) => pc'[p] = "SaveRead"
          /\ (formatterCmd[p] = null /\ pc'[p] # pc[p]) =>
                /\ pc[p] \in {"AskCopy", "Copy", "SaveRead", "SaveOpen", "SaveWrite",
                              "DoneReturn", "ErrReturn"}
                /\ pc[p] \notin {"DoneReturn", "ErrReturn"} =>
                      fs'[filename[p]] = code[p]
      ]_vars

\* The probe failed, the file was left as written and the entry appended.
C14_Witness ==
    /\ pc[1] = "DoneReturn"
    /\ formatterCmd[1] = null
    /\ fs[filename[1]] = code[1]
    /\ Persisted.ok
    /\ LastOf(Persisted.v.v) = LastOf(history[1].v)
    /\ EntryField(LastOf(Persisted.v.v), "file") = filename[1]

----------------------------------------------------------------------------
(* C15 *)

\* C15: no step of the View History branch or of the Create Gist branch
\* changes a file, whether the branch succeeds, reports a failure or ends
\* the process; the history file changes only in the append of an iteration
\* that then reaches 'Done.', and generated files change only in the write
\* and format steps of New Code.
C15_BranchesChangeNoFile ==
    [][/\ \A p \in Procs :
             (pc[p] \in {"ViewHistory", "ViewReturn", "CreateGist", "GistPost"}
                 /\ pc'[p] # pc[p]) =>
                 /\ fs' = fs
                 /\ clipboard' = clipboard
                 /\ pc'[p] \in {"ViewReturn", "GistPost", "MainMenu", "Terminated"}
       /\ HistoryFileIn(fs') # HistoryFileIn(fs) =>
             \E p \in Procs :
                /\ pc[p] \in {"SaveOpen", "SaveWrite"}
                /\ pc'[p] \in {"SaveWrite", "DoneReturn"}
                /\ code[p] # NotSet
       /\ GeneratedIn(fs') # GeneratedIn(fs) =>
             \E p \in Procs :
                /\ pc[p] \in {"WriteOpen", "WriteData", "Format"}
                /\ DOMAIN fs' \ DOMAIN fs \subseteq {filename[p]}
                /\ \A path \in DOMAIN fs : path # filename[p] => fs'[path] = fs[path]
      ]_vars

\* After an iteration that wrote a file and appended its entry, a gist
\* request has failed and the session is back at the menu.
C15_Witness ==
    /\ pc[1] = "MainMenu"
    /\ stdout[1] = << <<"Failed to create Gist:">> >> \o Banner
    /\ OwnEntriesIn(fs) # {}
    /\ DOMAIN GeneratedIn(fs) # {}

----------------------------------------------------------------------------
(* C16 *)

\* Sessions that answer the language selection in every way, for a few
\* prompts (the empty one included).
LanguagePrompts == RawPrompts \cup {<<>>}

NextLanguage ==
    \E p \in Procs :
        \/ exit(p)
        \/ selectNewCode(p, MaxFilenameClock)
        \/ newCodeInput(p, LanguagePrompts, AllChoices)
        \/ generateRejected(p)
        \/ errReturn(p)

SpecLanguage == InitFilename /\ [][NextLanguage]_vars

EndsWith(s, suffix) ==
    /\ Len(s) >= Len(suffix)
    /\ SubSeq(s, Len(s) - Len(suffix) + 1, Len(s)) = suffix

\* C16: whatever is answered to the language selection, cancel included,
\* the step after New Code reaches the generator with a language of the
\* registry, whose extension ends the derived file name, and the process
\* does not stop; a cancelled selection gives JavaScript and '.js'.
C16_CancelFallsBack ==
    [][\A p \in Procs :
          /\ (pc[p] = "NewCodeFlow" /\ pc'[p] # pc[p]) =>
                /\ pc'[p] = "Generating"
                /\ exitCode' = exitCode
                /\ lang'[p] \in Range(options)
                /\ lang'[p] \in DOMAIN formatters
                /\ EndsWith(filename'[p], formatters[lang'[p]].ext)
          /\ newCodeInput(p, LanguagePrompts, {-1}) =>
                /\ lang'[p] = "JavaScript"
                /\ EndsWith(filename'[p], <<".", "j", "s">>)
                /\ pc'[p] = "Generating"
          /\ (pc[p] = "Generating" /\ pc'[p] # pc[p]) =>
                lang[p] \in Range(options)
      ]_vars

\* The selection was answered and the generator is running for JavaScript,
\* the language a cancel gives.
C16_Witness ==
    /\ pc[1] = "Generating"
    /\ lang[1] = languageSelector(-1)
    /\ lang[1] = "JavaScript"
    /\ prompt[1] = SortList
    /\ EndsWith(filename[1], <<".", "j", "s">>)

----------------------------------------------------------------------------
(* C17: prompts made of path syntax, generated and written *)

MaxTraversalClock == 2

LongS == "U+017F"     \* its upper case is the ASCII letter S

TraversalPrompts ==
    { <<>>,
      <<".">>,
      <<".", ".">>,
      <<".", ".", Sep, "a">>,
      <<Sep, "a">>,
      <<".", ".", Backslash, "Z">>,
      <<".", ".", Sep, ".", ".", Sep, "a", "7">>,
      <<KelvinSign, LongS, CapitalIDot>> }

InitTraversal == InitWith({1}, {})

NextTraversal ==
    \E p \in Procs :
        \/ exit(p)
        \/ selectNewCode(p, MaxTraversalClock)
        \/ newCodeInput(p, TraversalPrompts, AllChoices)
        \/ generateResolved(p, Texts)
        \/ declinePreview(p)
        \/ writeCodeOpen(p)
        \/ writeCode(p)
        \/ checkFormatter(p, {FALSE})
        \/ askCopy(p, {FALSE})
        \/ saveHistory(p)
        \/ saveHistoryOpen(p)
        \/ saveHistoryWrite(p)
        \/ doneReturn(p)

SpecTraversal == InitTraversal /\ [][NextTraversal]_vars

SafeUnits == Range(LowerCase) \cup Range(Digit) \cup {"_"}

\* path is outputDir, one separator, and a name of units of [a-z0-9_]
\* followed by ext.
SafeChildOf(path, ext) ==
    LET dirLen == Len(outputDir)
        name == SubSeq(path, dirLen + 2, Len(path))
        stem == SubSeq(name, 1, Len(name) - Len(ext))
    IN  /\ Len(path) >= dirLen + 1 + Len(ext)
        /\ SubSeq(path, 1, dirLen) = outputDir
        /\ path[dirLen + 1] = Sep
        /\ EndsWith(name, ext)
        /\ \A i \in 1..Len(stem) : stem[i] \in SafeUnits
        /\ Segments(path, <<>>) = Segments(outputDir, <<>>) \o <<name>>

\* C17: for every prompt, also one made of '/', '\', '.', '..' or non-ASCII
\* letters, and every language, the derived path is the output directory,
\* a separator and a name of characters of [a-z0-9_] followed by the
\* extension of the language; every file a generation has written is such a
\* direct child of the output directory, and the only other file of the
\* file system is the history file.
C17_NameStaysInOutputDir ==
    /\ \A p \in Procs :
          filename[p] # NotSet => SafeChildOf(filename[p], formatters[lang[p]].ext)
    /\ \A path \in DOMAIN fs \ {historyPath} :
          \E l \in Range(options) : SafeChildOf(path, formatters[l].ext)

\* The prompt ../../a7 has been generated for Python and written.
C17_Witness ==
    /\ pc[1] = "Probe"
    /\ prompt[1] = <<".", ".", Sep, ".", ".", Sep, "a", "7">>
    /\ lang[1] = "Python"
    /\ filename[1] = outputDir \o <<Sep, "_","_","_","_","_","_","a","7", ".","p","y">>
    /\ DOMAIN fs = {filename[1]}

====
